---- MODULE Spec2Model ----
(***************************************************************************)
(* Model of the reconstruction job orchestration of the 3D building        *)
(* generator backend (server/app/main.py, storage.py, storage_service.py). *)
(*                                                                         *)
(* The event loop runs one coroutine segment at a time: every action that  *)
(* models code between two awaits is atomic.  asyncio.to_thread hands a    *)
(* function to a worker thread; the worker runs to completion whether or   *)
(* not the awaiting task is cancelled in the meantime.                     *)
(*                                                                         *)
(* Progress values are percentages (0.05 is 5, 1.0 is 100).                *)
(***************************************************************************)
EXTENDS Integers, Sequences, FiniteSets, TLC

\* ------------------------------------------------------------------ bounds
\* schedule calls in a behaviour
MaxTasks == 2
\* requests other than uploads in a behaviour: status callbacks, manual
\* status edits, resets
MaxRequests == 1

\* --------------------------------------------------------------- constants
NULL == "null"
NoProgress == -1

JobIds == {"j1"}
TaskIds == 1..MaxTasks

JobStatus == {"queued", "processing", "meshing", "texturing", "completed", "failed"}
Terminal == {"completed", "failed"}

\* The situations run_colmap.py may find: whether the input directory exists,
\* whether a COLMAP binary is on the path, whether every COLMAP step succeeds.
RunColmapEnvs == [input : BOOLEAN, colmap : BOOLEAN, steps_ok : BOOLEAN]

\* scripts/run_colmap.py main: its exit code and what it leaves in the
\* output directory.
run_colmap_main(env) ==
    IF ~env.input THEN [rc |-> 2, out |-> {}]
    ELSE IF ~env.colmap THEN [rc |-> 0, out |-> {"model_placeholder.ply"}]
    ELSE IF ~env.steps_ok THEN [rc |-> 1, out |-> {"model_placeholder.ply"}]
    ELSE [rc |-> 0, out |-> {"model.ply"}]

\* How a pipeline command may end: its exit code and the entries it has left
\* in its working directory, named by their path below it: the outcomes of
\* run_colmap.py and those of other commands.
ProcessOutcomes ==
    {[rc |-> 0, out |-> {}],
     [rc |-> 0, out |-> {"log.txt"}],
     [rc |-> 0, out |-> {"model.ply", "log.txt"}],
     [rc |-> 0, out |-> {"model.ply", "sub/scene.obj"}],
     [rc |-> 0, out |-> {"cache.ply", "log.txt"}],
     [rc |-> 7, out |-> {"log.txt"}]}
    \cup {run_colmap_main(env) : env \in RunColmapEnvs}

\* RECONSTRUCTION_ARTIFACT_PATTERN default, in configured order.
artifact_patterns == <<"model.glb", "model.gltf", "*.glb", "*.gltf", "*.obj", "*.ply">>

\* ------------------------------------------------------------------ state
VARIABLES
    cfg,        \* the runner's configuration, fixed at construction
    jobs,       \* job store: job id -> row, or NoRow when there is no such row
    tasks,      \* every asyncio task schedule created, by creation order
    registry,   \* ReconstructionRunner._tasks: job id -> task (0: no entry)
    workFiles,  \* data/work/<job id>: names of the regular files in it
    cb,         \* the status callback request in flight, if any
    nSched,     \* number of schedule calls made so far
    schedResult,\* outcome of the latest schedule call
    lastWrite,  \* per job: who applied the latest status update, and how
    nRequests,  \* callbacks, manual status edits and resets received so far
    created,    \* job ids handed out so far (a deleted job's id is not reused)
    cbResponse  \* what the latest status callback was answered, and why

vars == <<cfg, jobs, tasks, registry, workFiles, cb, nSched, schedResult,
          lastWrite, nRequests, created, cbResponse>>

\* ------------------------------------------------------- job store (rows)
\* A row that is created already in progress.
NewJob_started ==
    [status |-> "processing", progress |-> 5, notes |-> NULL,
     model_file_name |-> NULL, external_job_id |-> NULL]

NewJob ==
    [status |-> "queued", progress |-> 0, notes |-> NULL,
     model_file_name |-> NULL, external_job_id |-> NULL]

\* session.get(Job, job_id) finding nothing.
NoRow ==
    [status |-> NULL, progress |-> 0, notes |-> NULL,
     model_file_name |-> NULL, external_job_id |-> NULL]

Patch(s, p, n, m) ==
    [status |-> s, progress |-> p, notes |-> n, model_file_name |-> m]

\* An update that leaves a completed or failed row as it is.
update_job_guarded(row, payload) ==
    IF row.status \in {"completed", "failed"} THEN row
    ELSE
    LET st1 == IF payload.status # NULL THEN payload.status ELSE row.status
        pr  == IF payload.progress # NoProgress THEN payload.progress ELSE row.progress
        st2 == IF payload.progress # NoProgress /\ pr >= 100 /\ payload.status = NULL
               THEN "completed" ELSE st1
    IN  [row EXCEPT
            !.status = st2,
            !.progress = pr,
            !.model_file_name =
                IF payload.model_file_name # NULL THEN payload.model_file_name ELSE @,
            !.notes = IF payload.notes # NULL THEN payload.notes ELSE @]

\* An update that appends the notes instead of replacing them.
update_job_appending(row, payload) ==
    LET st1 == IF payload.status # NULL THEN payload.status ELSE row.status
        pr  == IF payload.progress # NoProgress THEN payload.progress ELSE row.progress
        st2 == IF payload.progress # NoProgress /\ pr >= 100 /\ payload.status = NULL
               THEN "completed" ELSE st1
    IN  [row EXCEPT
            !.status = st2,
            !.progress = pr,
            !.model_file_name =
                IF payload.model_file_name # NULL THEN payload.model_file_name ELSE @,
            !.notes = IF payload.notes # NULL
                      THEN (IF @ = NULL THEN payload.notes ELSE @ \o "; " \o payload.notes)
                      ELSE @]

\* An update that promotes to completed at full progress whatever status the
\* patch carries.
update_job_promoting_always(row, payload) ==
    LET st1 == IF payload.status # NULL THEN payload.status ELSE row.status
        pr  == IF payload.progress # NoProgress THEN payload.progress ELSE row.progress
        st2 == IF payload.progress # NoProgress /\ pr >= 100
               THEN "completed" ELSE st1
    IN  [row EXCEPT
            !.status = st2,
            !.progress = pr,
            !.model_file_name =
                IF payload.model_file_name # NULL THEN payload.model_file_name ELSE @,
            !.notes = IF payload.notes # NULL THEN payload.notes ELSE @]

\* An update that writes every field of the patch, absent ones included.
update_job_overwriting(row, payload) ==
    LET st1 == IF payload.status # NULL THEN payload.status ELSE row.status
        pr  == IF payload.progress # NoProgress THEN payload.progress ELSE row.progress
        st2 == IF payload.progress # NoProgress /\ pr >= 100 /\ payload.status = NULL
               THEN "completed" ELSE st1
    IN  [row EXCEPT
            !.status = st2,
            !.progress = pr,
            !.model_file_name = payload.model_file_name,
            !.notes = payload.notes]

\* A request model that accepts any progress.
validate_lax(payload) == TRUE

\* JobStatusUpdateRequest: progress, when given, is within [0.0, 1.0].
validate(payload) ==
    payload.progress = NoProgress \/ (0 <= payload.progress /\ payload.progress <= 100)

\* AppStateStore.update_job applied to an existing row.
update_job(row, payload) ==
    LET st1 == IF payload.status # NULL THEN payload.status ELSE row.status
        pr  == IF payload.progress # NoProgress THEN payload.progress ELSE row.progress
        st2 == IF payload.progress # NoProgress /\ pr >= 100 /\ payload.status = NULL
               THEN "completed" ELSE st1
    IN  [row EXCEPT
            !.status = st2,
            !.progress = pr,
            !.model_file_name =
                IF payload.model_file_name # NULL THEN payload.model_file_name ELSE @,
            !.notes = IF payload.notes # NULL THEN payload.notes ELSE @]

\* An attach that also puts the job back in the queue.
attach_external_job_id_requeue(row, external_job_id) ==
    [row EXCEPT !.external_job_id = external_job_id, !.status = "queued"]

attach_external_job_id(row, external_job_id) ==
    [row EXCEPT !.external_job_id = external_job_id]

\* ------------------------------------------------------ artifact storage
\* LocalStorageService._maybe_upload_model with no Supabase client.
maybe_upload_model(local_path) == local_path

save_model_placeholder(j) == maybe_upload_model("data/models/" \o j \o ".glb")

\* Path.name: the last component of a path.
basename(path) ==
    CASE path = "sub/scene.obj" -> "scene.obj"
      [] OTHER -> path

persist_model_artifact(j, name) ==
    maybe_upload_model("data/models/" \o j \o "/" \o basename(name))

\* The directory content prepare_work_dir leaves behind.
prepare_work_dir(files) == {}

\* Path.rglob(pattern): the entries, at any depth, whose name matches.
Matches(pattern, name) ==
    CASE pattern = "model.glb"  -> name = "model.glb"
      [] pattern = "model.gltf" -> name = "model.gltf"
      [] pattern = "*.glb"      -> name \in {"model.glb", "scene.glb", "missing.glb"}
      [] pattern = "*.gltf"     -> name \in {"model.gltf"}
      [] pattern = "*.obj"      -> name \in {"scene.obj", "sub/scene.obj"}
      [] pattern = "*.ply"      -> name \in {"model.ply", "model_placeholder.ply",
                                             "cache.ply"}
      [] OTHER                  -> FALSE

\* candidate.is_file(): cache.ply is a directory a command leaves behind.
is_file(name) == name # "cache.ply"

\* A locator that tries the patterns from the last to the first.
locate_artifact_last_pattern(files) ==
    LET hits(i) == {f \in files : Matches(artifact_patterns[i], f) /\ is_file(f)}
        idx == {i \in 1..Len(artifact_patterns) : hits(i) # {}}
    IN  IF idx = {} THEN NULL
        ELSE LET last == CHOOSE i \in idx : \A k \in idx : i >= k
             IN  CHOOSE f \in hits(last) : TRUE

\* ReconstructionRunner._locate_artifact: first pattern with a match that is
\* a regular file.
locate_artifact(files) ==
    LET hits(i) == {f \in files : Matches(artifact_patterns[i], f) /\ is_file(f)}
        idx == {i \in 1..Len(artifact_patterns) : hits(i) # {}}
    IN  IF idx = {} THEN NULL
        ELSE LET first == CHOOSE i \in idx : \A k \in idx : i <= k
             IN  CHOOSE f \in hits(first) : TRUE

\* ------------------------------------------------------------------ tasks
Ended == {"done", "cancelled", "crashed"}

NoPatch == Patch(NULL, NoProgress, NULL, NULL)
NoResult == [accepted |-> FALSE, external_job_id |-> NULL, message |-> NULL, exc |-> NULL]

\* A task: the coroutine's position (pc), the cancellation request, the
\* function it handed to a worker thread (thr) and what the await returned
\* (ret), the latest patch it issued, and the locals the later code reads;
\* wrote is the content of the working directory when the child exited.
NoTask ==
    [job |-> NULL, kind |-> "none", pc |-> "none", cancel |-> FALSE,
     thr |-> "none", ret |-> "none", patch |-> NoPatch, step |-> 0, rc |-> -1,
     proc |-> "none", wrote |-> {}, result |-> NoResult]

\* A chain that falls back to the simulation whatever the flag says.
select_strategy_ignoring_flag(c) ==
    IF c.client THEN "external"
    ELSE IF c.template THEN "pipeline"
    ELSE "simulate"

\* A chain that tries the command template before the external client.
select_strategy_template_first(c) ==
    IF c.template THEN "pipeline"
    ELSE IF c.client THEN "external"
    ELSE IF c.sim THEN "simulate"
    ELSE "error"

\* Strategy chosen by schedule's if/elif chain.
select_strategy(c) ==
    IF c.client THEN "external"
    ELSE IF c.template THEN "pipeline"
    ELSE IF c.sim THEN "simulate"
    ELSE "error"

NextTask == CHOOSE t \in TaskIds : tasks[t].kind = "none"
                                   /\ \A u \in TaskIds : u < t => tasks[u].kind # "none"

\* A cancel that never signals.
cancel_dropped(tk) == tk

\* Task.cancel(): a finished task ignores it.
cancel(tk) == IF tk.pc \in Ended THEN tk ELSE [tk EXCEPT !.cancel = TRUE]

\* A schedule that writes the first status update itself before returning.
schedule_eager(j, store) ==
    LET kind == select_strategy(cfg)
        old  == registry[j]
        cancelled == IF old # 0 THEN [tasks EXCEPT ![old] = cancel(tasks[old])] ELSE tasks
    IN  /\ nSched' = nSched + 1
        /\ IF kind = "error"
           THEN /\ tasks' = cancelled
                /\ registry' = registry
                /\ schedResult' = "RuntimeError"
                /\ jobs' = store
           ELSE /\ tasks' = [cancelled EXCEPT ![NextTask] =
                                [NoTask EXCEPT !.job = j, !.kind = kind, !.pc = "created"]]
                /\ registry' = [registry EXCEPT ![j] = NextTask]
                /\ schedResult' = "ok"
                /\ jobs' = [store EXCEPT ![j] =
                                update_job(@, Patch("processing", 5, "Reconstruction started", NULL))]

\* ReconstructionRunner.schedule, called with the job store as `store`:
\* it leaves the store as it is.
schedule(j, store) ==
    LET kind == select_strategy(cfg)
        old  == registry[j]
        cancelled == IF old # 0 THEN [tasks EXCEPT ![old] = cancel(tasks[old])] ELSE tasks
    IN  /\ nSched' = nSched + 1
        /\ jobs' = store
        /\ IF kind = "error"
           THEN /\ tasks' = cancelled
                /\ registry' = registry
                /\ schedResult' = "RuntimeError"
           ELSE /\ tasks' = [cancelled EXCEPT ![NextTask] =
                                [NoTask EXCEPT !.job = j, !.kind = kind, !.pc = "created"]]
                /\ registry' = [registry EXCEPT ![j] = NextTask]
                /\ schedResult' = "ok"

\* POST /uploads: the job row is created, then schedule is called.
CreateUpload(j) ==
    /\ j \notin created
    /\ nSched < MaxTasks
    /\ created' = created \cup {j}
    /\ schedule(j, [jobs EXCEPT ![j] = NewJob])
    /\ UNCHANGED <<cfg, workFiles, cb, lastWrite, nRequests, cbResponse>>

\* schedule called again for a job that exists (a retry from the API layer).
Reschedule(j) ==
    /\ jobs[j] # NoRow
    /\ nSched < MaxTasks
    /\ schedule(j, jobs)
    /\ UNCHANGED <<cfg, workFiles, cb, lastWrite, nRequests, created, cbResponse>>

\* A task that has ended: its locals are gone; what it handed to a worker
\* thread, and the child process it spawned, go on without it.
EndTask(tk, how) ==
    [NoTask EXCEPT !.job = tk.job, !.kind = tk.kind, !.pc = how, !.cancel = tk.cancel,
                   !.thr = tk.thr,
                   !.patch = IF tk.thr = "update" THEN tk.patch ELSE NoPatch,
                   !.result = IF tk.thr = "attach" THEN tk.result ELSE NoResult,
                   !.proc = IF tk.proc = "running" THEN "running" ELSE "none"]

\* An end of task that removes the registry entry of its job.
TaskCancelled_cleanup(t) ==
    /\ tasks[t].cancel
    /\ tasks[t].pc \notin Ended
    /\ tasks[t].kind # "none"
    /\ tasks' = [tasks EXCEPT ![t] = EndTask(@, "cancelled")]
    /\ registry' = [registry EXCEPT ![tasks[t].job] = 0]
    /\ UNCHANGED <<cfg, jobs, workFiles, cb, nSched, schedResult,
                   lastWrite, nRequests, created, cbResponse>>

\* The CancelledError reaches the coroutine at its await and ends the task.
TaskCancelled(t) ==
    /\ tasks[t].cancel
    /\ tasks[t].pc \notin Ended
    /\ tasks[t].kind # "none"
    /\ tasks' = [tasks EXCEPT ![t] = EndTask(@, "cancelled")]
    /\ UNCHANGED <<cfg, jobs, registry, workFiles, cb, nSched, schedResult,
                   lastWrite, nRequests, created, cbResponse>>

\* --------------------------------------------------------- worker threads
\* An update that is started and not awaited.
Issue_unawaited(t, pc, patch) ==
    [tasks EXCEPT ![t].pc = pc, ![t].thr = "update", ![t].ret = "ok", ![t].patch = patch]

\* await self._update_job(job_id, payload): hand _sync_update to a worker.
Issue(t, pc, patch) ==
    [tasks EXCEPT ![t].pc = pc, ![t].thr = "update", ![t].ret = "none", ![t].patch = patch]

\* The worker's function returns (r is "ok") or raises (r is "err"): the
\* await delivers that to the task, unless the task has ended.
Deliver(tk, r) ==
    IF tk.pc \in Ended
    THEN [tk EXCEPT !.thr = "none", !.patch = NoPatch, !.result = NoResult]
    ELSE [tk EXCEPT !.thr = "none", !.ret = r]

\* A worker that stops after the status column when its task has been told
\* to cancel.
sync_update_torn(t) ==
    LET tk == tasks[t] IN
    /\ tk.thr = "update"
    /\ IF jobs[tk.job] = NoRow
       THEN /\ tasks' = [tasks EXCEPT ![t] = Deliver(tk, "err")]
            /\ UNCHANGED <<jobs, lastWrite>>
       ELSE /\ jobs' = [jobs EXCEPT ![tk.job] =
                            IF tk.cancel THEN [@ EXCEPT !.status = tk.patch.status]
                            ELSE update_job(@, tk.patch)]
            /\ lastWrite' = [lastWrite EXCEPT ![tk.job] =
                                [by |-> t, stale |-> tk.cancel,
                                 overTerminal |-> jobs[tk.job].status \in Terminal]]
            /\ tasks' = [tasks EXCEPT ![t] = Deliver(tk, "ok")]
    /\ UNCHANGED <<cfg, registry, workFiles, cb, nSched, schedResult,
                   nRequests, created, cbResponse>>

\* _sync_update on its worker thread: update_job in a session of its own.
\* The worker is not stopped by the cancellation of the task that awaits it.
sync_update(t) ==
    LET tk == tasks[t] IN
    /\ tk.thr = "update"
    /\ IF jobs[tk.job] = NoRow
       THEN /\ tasks' = [tasks EXCEPT ![t] = Deliver(tk, "err")]
            /\ UNCHANGED <<jobs, lastWrite>>
       ELSE /\ jobs' = [jobs EXCEPT ![tk.job] = update_job(@, tk.patch)]
            /\ lastWrite' = [lastWrite EXCEPT ![tk.job] =
                                [by |-> t, stale |-> tk.cancel,
                                 overTerminal |-> jobs[tk.job].status \in Terminal]]
            /\ tasks' = [tasks EXCEPT ![t] = Deliver(tk, "ok")]
    /\ UNCHANGED <<cfg, registry, workFiles, cb, nSched, schedResult,
                   nRequests, created, cbResponse>>

\* What the external service may answer to POST /jobs (SubmitJobResult), or
\* the exception submit_job raises: "service" is ReconstructionServiceError,
\* "other" any other exception (a body that is not JSON, a socket timeout).
SubmitOutcomes ==
    {[accepted |-> TRUE,  external_job_id |-> "ext-1", message |-> NULL, exc |-> NULL],
     [accepted |-> TRUE,  external_job_id |-> NULL, message |-> "queued by service", exc |-> NULL],
     [accepted |-> FALSE, external_job_id |-> "ext-1", message |-> "quota exceeded", exc |-> NULL],
     [accepted |-> FALSE, external_job_id |-> NULL, message |-> NULL, exc |-> NULL],
     [accepted |-> FALSE, external_job_id |-> NULL,
      message |-> "Failed to reach reconstruction service: timed out", exc |-> "service"],
     [accepted |-> FALSE, external_job_id |-> NULL,
      message |-> "Expecting value", exc |-> "other"]}

\* external_client.submit_job on its worker thread.
submit_job(t) ==
    LET tk == tasks[t] IN
    /\ tk.thr = "submit"
    /\ \E r \in SubmitOutcomes :
          tasks' = [tasks EXCEPT ![t] =
                        Deliver([tk EXCEPT !.result = r], IF r.exc = NULL THEN "ok" ELSE "err")]
    /\ UNCHANGED <<cfg, jobs, registry, workFiles, cb, nSched, schedResult,
                   lastWrite, nRequests, created, cbResponse>>

\* _attach on its worker thread: attach_external_job_id in a session of its own.
attach(t) ==
    LET tk == tasks[t] IN
    /\ tk.thr = "attach"
    /\ IF jobs[tk.job] = NoRow
       THEN /\ tasks' = [tasks EXCEPT ![t] = Deliver(tk, "err")]
            /\ UNCHANGED jobs
       ELSE /\ jobs' = [jobs EXCEPT ![tk.job] =
                            attach_external_job_id(@, tk.result.external_job_id)]
            /\ tasks' = [tasks EXCEPT ![t] = Deliver(tk, "ok")]
    /\ UNCHANGED <<cfg, registry, workFiles, cb, nSched, schedResult,
                   lastWrite, nRequests, created, cbResponse>>

\* --------------------------------------------------------------- executors
\* An exception leaves the coroutine: the task ends with it.
Raise(t) == [tasks EXCEPT ![t] = EndTask(@, "crashed")]

\* The coroutine returns.
Finish(t) == [tasks EXCEPT ![t] = EndTask(@, "done")]

\* An except branch that drops the error text.
submit_error_patch_generic(result) ==
    Patch("failed", 0, "Submission failed", NULL)

\* The update the two except branches around submit_job issue.
submit_error_patch(result) ==
    Patch("failed", 0,
          IF result.exc = "service" THEN result.message
          ELSE "Unexpected error contacting reconstruction service: " \o result.message,
          NULL)

\* A tail that reports an accepted job as completed.
ext_verdict_completing(t, result) ==
    IF ~result.accepted
    THEN Issue(t, "ext_final",
               Patch("failed", 0,
                     IF result.message # NULL THEN result.message
                     ELSE "Reconstruction service rejected the job.", NULL))
    ELSE Issue(t, "ext_final",
               Patch("completed", 100,
                     IF result.message # NULL THEN result.message
                     ELSE "Job accepted by reconstruction service.", NULL))

\* The tail of _submit_external_job from "if not result.accepted".
ext_verdict(t, result) ==
    IF ~result.accepted
    THEN Issue(t, "ext_final",
               Patch("failed", 0,
                     IF result.message # NULL THEN result.message
                     ELSE "Reconstruction service rejected the job.", NULL))
    ELSE Issue(t, "ext_final",
               Patch("processing", 10,
                     IF result.message # NULL THEN result.message
                     ELSE "Job accepted by reconstruction service.", NULL))

\* ReconstructionRunner._submit_external_job, one segment between two awaits.
submit_external_job(t) ==
    LET tk == tasks[t] IN
    /\ tk.kind = "external"
    /\ ~tk.cancel
    /\ \/ /\ tk.pc = "created"
          /\ tasks' = Issue(t, "ext_submitting",
                            Patch("processing", 5, "Submitting to reconstruction service", NULL))
       \/ /\ tk.pc = "ext_submitting"
          /\ tk.ret = "ok"
          /\ tasks' = [tasks EXCEPT ![t].pc = "ext_submit", ![t].thr = "submit",
                                    ![t].ret = "none"]
       \/ /\ tk.pc \in {"ext_submitting", "ext_attach", "ext_final"}
          /\ tk.ret = "err"
          /\ tasks' = Raise(t)
       \/ /\ tk.pc = "ext_submit"
          /\ tk.ret = "err"
          /\ tasks' = Issue(t, "ext_final", submit_error_patch(tk.result))
       \/ /\ tk.pc = "ext_submit"
          /\ tk.ret = "ok"
          /\ tasks' = IF tk.result.external_job_id # NULL
                      THEN [tasks EXCEPT ![t].pc = "ext_attach", ![t].thr = "attach",
                                         ![t].ret = "none"]
                      ELSE ext_verdict(t, tk.result)
       \/ /\ tk.pc = "ext_attach"
          /\ tk.ret = "ok"
          /\ tasks' = ext_verdict(t, tk.result)
       \/ /\ tk.pc = "ext_final"
          /\ tk.ret = "ok"
          /\ tasks' = Finish(t)
    /\ UNCHANGED <<cfg, jobs, registry, workFiles, cb, nSched, schedResult,
                   lastWrite, nRequests, created, cbResponse>>

\* The update _run_pipeline issues for a non-zero exit code.
exit_patch_without_code(rc) ==
    Patch("failed", 0, "Pipeline failed", NULL)

exit_patch(rc) ==
    Patch("failed", 0, "Pipeline exited with code " \o ToString(rc), NULL)

\* A verdict that completes the job with the placeholder model when the
\* command has left no artifact.
pipeline_verdict_placeholder(j, artifact) ==
    IF artifact = NULL
    THEN Patch("completed", 100, "Reconstruction complete", save_model_placeholder(j))
    ELSE Patch("completed", 100, "Reconstruction complete",
               persist_model_artifact(j, artifact))

\* The update _run_pipeline issues after exit code 0, from what
\* _locate_artifact returned.
pipeline_verdict(j, artifact) ==
    IF artifact = NULL
    THEN Patch("failed", 0, "Pipeline finished but no model artifact was found.", NULL)
    ELSE Patch("completed", 100, "Reconstruction complete",
               persist_model_artifact(j, artifact))

\* The child process of a pipeline task ends: it has left its output in the
\* working directory and exits with some code.  A cancelled task's child is
\* not killed.
ProcessExit(t) ==
    LET tk == tasks[t] IN
    /\ tk.proc = "running"
    /\ \E o \in ProcessOutcomes :
          /\ tasks' = IF tk.pc \in Ended
                      THEN [tasks EXCEPT ![t].proc = "none"]
                      ELSE [tasks EXCEPT ![t].proc = "exited", ![t].rc = o.rc,
                                         ![t].wrote = workFiles[tk.job] \cup o.out]
          /\ workFiles' = [workFiles EXCEPT ![tk.job] = @ \cup o.out]
    /\ UNCHANGED <<cfg, jobs, registry, cb, nSched, schedResult,
                   lastWrite, nRequests, created, cbResponse>>

\* ReconstructionRunner._run_pipeline, one segment between two awaits.
run_pipeline(t) ==
    LET tk == tasks[t] IN
    /\ tk.kind = "pipeline"
    /\ ~tk.cancel
    /\ \/ /\ tk.pc = "created"
          \* command_template.format(...) prepares the working directory twice
          /\ workFiles' = [workFiles EXCEPT ![tk.job] = prepare_work_dir(prepare_work_dir(@))]
          /\ tasks' = Issue(t, "pipe_started",
                            Patch("processing", 5, "Reconstruction started", NULL))
       \* command_template.format raises: the template has a placeholder the
       \* call does not supply, or a lone brace
       \/ /\ tk.pc = "created"
          /\ workFiles' = [workFiles EXCEPT ![tk.job] = prepare_work_dir(prepare_work_dir(@))]
          /\ tasks' = Raise(t)
       \/ /\ tk.pc = "pipe_started"
          /\ tk.ret = "ok"
          /\ tasks' = [tasks EXCEPT ![t].pc = "pipe_wait", ![t].proc = "running",
                                    ![t].ret = "none"]
          /\ UNCHANGED workFiles
       \/ /\ tk.pc \in {"pipe_started", "pipe_final"}
          /\ tk.ret = "err"
          /\ tasks' = Raise(t)
          /\ UNCHANGED workFiles
       \/ /\ tk.pc = "pipe_wait"
          /\ tk.proc = "exited"
          /\ tk.rc # 0
          /\ tasks' = Issue(t, "pipe_final", exit_patch(tk.rc))
          /\ UNCHANGED workFiles
       \/ /\ tk.pc = "pipe_wait"
          /\ tk.proc = "exited"
          /\ tk.rc = 0
          /\ LET dir == prepare_work_dir(workFiles[tk.job])
                 artifact == locate_artifact(dir)
             IN  /\ workFiles' = [workFiles EXCEPT ![tk.job] = dir]
                 /\ tasks' = Issue(t, "pipe_final", pipeline_verdict(tk.job, artifact))
       \/ /\ tk.pc = "pipe_final"
          /\ tk.ret = "ok"
          /\ tasks' = Finish(t)
          /\ UNCHANGED workFiles
    /\ UNCHANGED <<cfg, jobs, registry, cb, nSched, schedResult,
                   lastWrite, nRequests, created, cbResponse>>

\* A timeline that bakes textures before it meshes.
sim_steps_swapped ==
    <<[status |-> "processing", progress |-> 20, note |-> "Running structure-from-motion"],
      [status |-> "texturing",  progress |-> 85, note |-> "Baking textures"],
      [status |-> "meshing",    progress |-> 60, note |-> "Generating dense mesh"],
      [status |-> "completed",  progress |-> 100, note |-> "Reconstruction complete"]>>

sim_steps ==
    <<[status |-> "processing", progress |-> 20, note |-> "Running structure-from-motion"],
      [status |-> "meshing",    progress |-> 60, note |-> "Generating dense mesh"],
      [status |-> "texturing",  progress |-> 85, note |-> "Baking textures"],
      [status |-> "completed",  progress |-> 100, note |-> "Reconstruction complete"]>>

\* A simulation that goes on after its delay whether or not it has been told
\* to cancel.
simulate_ignoring_cancel(t) ==
    LET tk == tasks[t] IN
    /\ tk.kind = "simulate"
    /\ \/ /\ tk.pc = "created"
          /\ tasks' = [tasks EXCEPT ![t].pc = "sim_sleep", ![t].step = 1]
       \/ /\ tk.pc = "sim_sleep"
          /\ LET s == sim_steps[tk.step]
                 model_path == IF s.status = "completed"
                               THEN save_model_placeholder(tk.job) ELSE NULL
             IN  tasks' = Issue(t, "sim_update",
                                Patch(s.status, s.progress, s.note, model_path))
       \/ /\ tk.pc = "sim_update"
          /\ tk.ret = "ok"
          /\ tasks' = IF tk.step < Len(sim_steps)
                      THEN [tasks EXCEPT ![t].pc = "sim_sleep", ![t].ret = "none",
                                         ![t].step = tk.step + 1]
                      ELSE Finish(t)
       \/ /\ tk.pc = "sim_update"
          /\ tk.ret = "err"
          /\ tasks' = Raise(t)
       \* save_model_placeholder cannot write the file (OSError)
       \/ /\ tk.pc = "sim_sleep"
          /\ sim_steps[tk.step].status = "completed"
          /\ tasks' = Raise(t)
    /\ UNCHANGED <<cfg, jobs, registry, workFiles, cb, nSched, schedResult,
                   lastWrite, nRequests, created, cbResponse>>

\* ReconstructionRunner._simulate, one segment between two awaits.
simulate(t) ==
    LET tk == tasks[t] IN
    /\ tk.kind = "simulate"
    /\ ~tk.cancel
    /\ \/ /\ tk.pc = "created"
          /\ tasks' = [tasks EXCEPT ![t].pc = "sim_sleep", ![t].step = 1]
       \/ /\ tk.pc = "sim_sleep"
          /\ LET s == sim_steps[tk.step]
                 model_path == IF s.status = "completed"
                               THEN save_model_placeholder(tk.job) ELSE NULL
             IN  tasks' = Issue(t, "sim_update",
                                Patch(s.status, s.progress, s.note, model_path))
       \/ /\ tk.pc = "sim_update"
          /\ tk.ret = "ok"
          /\ tasks' = IF tk.step < Len(sim_steps)
                      THEN [tasks EXCEPT ![t].pc = "sim_sleep", ![t].ret = "none",
                                         ![t].step = tk.step + 1]
                      ELSE Finish(t)
       \/ /\ tk.pc = "sim_update"
          /\ tk.ret = "err"
          /\ tasks' = Raise(t)
       \* save_model_placeholder cannot write the file (OSError)
       \/ /\ tk.pc = "sim_sleep"
          /\ sim_steps[tk.step].status = "completed"
          /\ tasks' = Raise(t)
    /\ UNCHANGED <<cfg, jobs, registry, workFiles, cb, nSched, schedResult,
                   lastWrite, nRequests, created, cbResponse>>

\* ------------------------------------------------------- status callbacks
\* The artifact URIs a callback may carry, as urlparse and the environment
\* see them: scheme, path, file name, and whether the file or host answers.
UriInfo(uri) ==
    CASE uri = "/srv/out/model.glb" ->
            [scheme |-> "", path |-> "/srv/out/model.glb", name |-> "model.glb",
             available |-> TRUE]
      [] uri = "file:///srv/out/missing.glb" ->
            [scheme |-> "file", path |-> "/srv/out/missing.glb", name |-> "missing.glb",
             available |-> FALSE]
      [] uri = "http://recon.example/out/scene.glb" ->
            [scheme |-> "http", path |-> "/out/scene.glb", name |-> "scene.glb",
             available |-> TRUE]
      [] uri = "http://down.example/model.glb" ->
            [scheme |-> "http", path |-> "/model.glb", name |-> "model.glb",
             available |-> FALSE]
      [] OTHER ->
            [scheme |-> "ftp", path |-> "/model.glb", name |-> "model.glb",
             available |-> FALSE]

\* LocalStorageService.ingest_artifact_from_uri: the stored path, or the text
\* of the exception it raises; and the working directory it leaves behind.
ingest_artifact_from_uri(j, uri, files) ==
    LET u == UriInfo(uri) IN
    IF u.scheme \in {"", "file"}
    THEN IF ~u.available
         THEN [ok |-> FALSE, value |-> "Artifact not found at " \o u.path, files |-> files]
         ELSE [ok |-> TRUE, value |-> persist_model_artifact(j, u.name), files |-> files]
    ELSE IF u.scheme \in {"http", "https"}
    THEN IF ~u.available
         THEN [ok |-> FALSE, value |-> "<urlopen error [Errno 111] Connection refused>",
               files |-> prepare_work_dir(files)]
         ELSE [ok |-> TRUE, value |-> persist_model_artifact(j, u.name),
               files |-> prepare_work_dir(files) \cup {u.name}]
    ELSE [ok |-> FALSE, value |-> "Unsupported artifact URI scheme: " \o u.scheme,
          files |-> files]

\* The callbacks the external service sends.
CallbackPayloads ==
    {[status |-> "completed", progress |-> 100, message |-> "Reconstruction finished",
      model_uri |-> "http://recon.example/out/scene.glb"],
     [status |-> "completed", progress |-> 100, message |-> "Reconstruction finished",
      model_uri |-> "http://down.example/model.glb"],
     [status |-> "texturing", progress |-> 85, message |-> "Preview ready",
      model_uri |-> "file:///srv/out/missing.glb"],
     [status |-> "completed", progress |-> 100, message |-> NULL,
      model_uri |-> "ftp://recon.example/model.glb"],
     [status |-> "processing", progress |-> 50, message |-> "Meshing", model_uri |-> NULL],
     [status |-> "processing", progress |-> 150, message |-> "Meshing", model_uri |-> NULL],
     [status |-> "failed", progress |-> 0, message |-> NULL, model_uri |-> NULL]}

NoCb == [job |-> NULL,
         payload |-> [status |-> NULL, progress |-> NoProgress, message |-> NULL,
                      model_uri |-> NULL]]

\* No callback answered yet.
NoResponse == [code |-> 0, job |-> NULL, payload |-> NoCb.payload, artifact_error |-> NULL]

\* A handler that trusts the reported status when the ingestion has failed.
callback_patch_trusting(payload, artifact_path, artifact_error) ==
    IF artifact_error # NULL
    THEN Patch(payload.status, payload.progress,
               (IF payload.message # NULL THEN payload.message
                ELSE "Artifact retrieval failed") \o " - " \o artifact_error,
               NULL)
    ELSE Patch(payload.status, payload.progress, payload.message, artifact_path)

\* A handler that drops the caller's message.
callback_patch_silent(payload, artifact_path, artifact_error) ==
    IF artifact_error # NULL
    THEN Patch("failed", 0,
               (IF payload.message # NULL THEN payload.message
                ELSE "Artifact retrieval failed") \o " - " \o artifact_error,
               NULL)
    ELSE Patch(payload.status, payload.progress, NULL, artifact_path)

\* The patch reconstruction_status_callback builds from the payload and the
\* outcome of the ingestion (lines 448-468).
callback_patch(payload, artifact_path, artifact_error) ==
    IF artifact_error # NULL
    THEN Patch("failed", 0,
               (IF payload.message # NULL THEN payload.message
                ELSE "Artifact retrieval failed") \o " - " \o artifact_error,
               NULL)
    ELSE Patch(payload.status, payload.progress, payload.message, artifact_path)

\* store.update_job called by a request handler on the event loop.
ApplyRequestUpdate(j, patch, who) ==
    IF jobs[j] = NoRow
    THEN UNCHANGED <<jobs, lastWrite>>
    ELSE /\ jobs' = [jobs EXCEPT ![j] = update_job(@, patch)]
         /\ lastWrite' = [lastWrite EXCEPT ![j] =
                             [by |-> who, stale |-> FALSE,
                              overTerminal |-> jobs[j].status \in Terminal]]

\* A handler that creates the row it does not find.
reconstruction_status_callback_upsert(j, payload) ==
    /\ cb = NoCb
    /\ nRequests < MaxRequests
    /\ nRequests' = nRequests + 1
    /\ IF jobs[j] = NoRow
       THEN /\ jobs' = [jobs EXCEPT ![j] =
                           update_job(NewJob, callback_patch(payload, NULL, NULL))]
            /\ cbResponse' = [code |-> 204, job |-> j, payload |-> payload,
                              artifact_error |-> NULL]
            /\ UNCHANGED <<lastWrite, cb>>
       ELSE IF payload.model_uri = NULL
       THEN /\ IF validate(callback_patch(payload, NULL, NULL))
               THEN /\ ApplyRequestUpdate(j, callback_patch(payload, NULL, NULL), -1)
                    /\ cbResponse' = [code |-> 204, job |-> j, payload |-> payload,
                                      artifact_error |-> NULL]
               ELSE /\ cbResponse' = [code |-> 500, job |-> j, payload |-> payload,
                                      artifact_error |-> NULL]
                    /\ UNCHANGED <<jobs, lastWrite>>
            /\ UNCHANGED cb
       ELSE /\ cb' = [job |-> j, payload |-> payload]
            /\ UNCHANGED <<jobs, lastWrite, cbResponse>>
    /\ UNCHANGED <<cfg, tasks, registry, workFiles, nSched, schedResult, created>>

\* POST /internal/reconstruction/status up to its first await, for any job
\* id the caller names.
reconstruction_status_callback(j, payload) ==
    /\ cb = NoCb
    /\ nRequests < MaxRequests
    /\ nRequests' = nRequests + 1
    /\ IF jobs[j] = NoRow
       THEN /\ cbResponse' = [code |-> 404, job |-> j, payload |-> payload,
                              artifact_error |-> NULL]
            /\ UNCHANGED <<jobs, lastWrite, cb>>
       ELSE IF payload.model_uri = NULL
       THEN /\ IF validate(callback_patch(payload, NULL, NULL))
               THEN /\ ApplyRequestUpdate(j, callback_patch(payload, NULL, NULL), -1)
                    /\ cbResponse' = [code |-> 204, job |-> j, payload |-> payload,
                                      artifact_error |-> NULL]
               ELSE /\ cbResponse' = [code |-> 500, job |-> j, payload |-> payload,
                                      artifact_error |-> NULL]
                    /\ UNCHANGED <<jobs, lastWrite>>
            /\ UNCHANGED cb
       ELSE /\ cb' = [job |-> j, payload |-> payload]
            /\ UNCHANGED <<jobs, lastWrite, cbResponse>>
    /\ UNCHANGED <<cfg, tasks, registry, workFiles, nSched, schedResult, created>>

\* A reconciler that cancels the task of the job it reconciles.
callback_ingested_cancelling ==
    /\ cb # NoCb
    /\ LET r == ingest_artifact_from_uri(cb.job, cb.payload.model_uri, workFiles[cb.job])
           patch == callback_patch(cb.payload,
                                   IF r.ok THEN r.value ELSE NULL,
                                   IF r.ok THEN NULL ELSE r.value)
       IN  /\ workFiles' = [workFiles EXCEPT ![cb.job] = r.files]
           /\ IF validate(patch)
              THEN /\ ApplyRequestUpdate(cb.job, patch, -1)
                   /\ cbResponse' = [code |-> IF jobs[cb.job] = NoRow THEN 404 ELSE 204,
                                     job |-> cb.job, payload |-> cb.payload,
                                     artifact_error |-> IF r.ok THEN NULL ELSE r.value]
              ELSE /\ cbResponse' = [code |-> 500, job |-> cb.job, payload |-> cb.payload,
                                     artifact_error |-> IF r.ok THEN NULL ELSE r.value]
                   /\ UNCHANGED <<jobs, lastWrite>>
    /\ cb' = NoCb
    /\ tasks' = IF registry[cb.job] # 0
                THEN [tasks EXCEPT ![registry[cb.job]] = cancel(@)]
                ELSE tasks
    /\ UNCHANGED <<cfg, registry, nSched, schedResult, nRequests, created>>

\* The ingestion ends on its worker thread and the handler builds its patch
\* (JobStatusUpdateRequest validates it) and applies it.
callback_ingested ==
    /\ cb # NoCb
    /\ LET r == ingest_artifact_from_uri(cb.job, cb.payload.model_uri, workFiles[cb.job])
           patch == callback_patch(cb.payload,
                                   IF r.ok THEN r.value ELSE NULL,
                                   IF r.ok THEN NULL ELSE r.value)
       IN  /\ workFiles' = [workFiles EXCEPT ![cb.job] = r.files]
           /\ IF validate(patch)
              THEN /\ ApplyRequestUpdate(cb.job, patch, -1)
                   /\ cbResponse' = [code |-> IF jobs[cb.job] = NoRow THEN 404 ELSE 204,
                                     job |-> cb.job, payload |-> cb.payload,
                                     artifact_error |-> IF r.ok THEN NULL ELSE r.value]
              ELSE /\ cbResponse' = [code |-> 500, job |-> cb.job, payload |-> cb.payload,
                                     artifact_error |-> IF r.ok THEN NULL ELSE r.value]
                   /\ UNCHANGED <<jobs, lastWrite>>
    /\ cb' = NoCb
    /\ UNCHANGED <<cfg, tasks, registry, nSched, schedResult, nRequests, created>>

\* The patches a user posts to /jobs/{job_id}/status.
ManualPatches ==
    {Patch(NULL, 100, NULL, NULL),
     Patch("processing", 150, NULL, NULL),
     Patch("failed", NoProgress, "Cancelled by user", NULL)}

\* POST /jobs/{job_id}/status: a body that does not validate is answered 422
\* before the handler runs.
manual_update_job(j, patch) ==
    /\ jobs[j] # NoRow
    /\ nRequests < MaxRequests
    /\ nRequests' = nRequests + 1
    /\ IF validate(patch)
       THEN ApplyRequestUpdate(j, patch, -2)
       ELSE UNCHANGED <<jobs, lastWrite>>
    /\ UNCHANGED <<cfg, tasks, registry, workFiles, cb, nSched, schedResult, created, cbResponse>>

\* POST /__reset: AppStateStore.reset deletes every row.
reset_state ==
    /\ \E j \in JobIds : jobs[j] # NoRow
    /\ nRequests < MaxRequests
    /\ nRequests' = nRequests + 1
    /\ jobs' = [j \in JobIds |-> NoRow]
    /\ UNCHANGED <<cfg, tasks, registry, workFiles, cb, nSched, schedResult,
                   lastWrite, created, cbResponse>>

\* ------------------------------------------------------------ specification
NoWrite == [by |-> 0, stale |-> FALSE, overTerminal |-> FALSE]

Init ==
    /\ cfg \in [client : BOOLEAN, template : BOOLEAN, sim : BOOLEAN]
    /\ jobs = [j \in JobIds |-> NoRow]
    /\ tasks = [t \in TaskIds |-> NoTask]
    /\ registry = [j \in JobIds |-> 0]
    /\ workFiles = [j \in JobIds |-> {}]
    /\ cb = NoCb
    /\ nSched = 0
    /\ schedResult = "none"
    /\ lastWrite = [j \in JobIds |-> NoWrite]
    /\ nRequests = 0
    /\ created = {}
    /\ cbResponse = NoResponse

Next ==
    \/ \E j \in JobIds : CreateUpload(j)
    \/ \E j \in JobIds : Reschedule(j)
    \/ \E t \in TaskIds : TaskCancelled(t)
    \/ \E t \in TaskIds : sync_update(t)
    \/ \E t \in TaskIds : submit_job(t)
    \/ \E t \in TaskIds : attach(t)
    \/ \E t \in TaskIds : submit_external_job(t)
    \/ \E t \in TaskIds : ProcessExit(t)
    \/ \E t \in TaskIds : run_pipeline(t)
    \/ \E t \in TaskIds : simulate(t)
    \/ \E j \in JobIds, p \in CallbackPayloads : reconstruction_status_callback(j, p)
    \/ callback_ingested
    \/ \E j \in JobIds, p \in ManualPatches : manual_update_job(j, p)
    \/ reset_state

Spec == Init /\ [][Next]_vars

\* ------------------------------------------------------------------ claims
TasksOf(j) == {t \in TaskIds : tasks[t].kind # "none" /\ tasks[t].job = j}

Newest(j) == CHOOSE t \in TasksOf(j) : \A u \in TasksOf(j) : u <= t

\* A task that has not ended and has not been told to cancel.
Live(t) == tasks[t].kind # "none" /\ tasks[t].pc \notin Ended /\ ~tasks[t].cancel

NoStrategy == ~cfg.client /\ ~cfg.template /\ ~cfg.sim

\* C1: once schedule has superseded a task, no status update of that task
\* is applied to the job any more.
C1_NoUpdateFromSupersededTask ==
    \A j \in JobIds : ~lastWrite[j].stale

\* C2: no executor applies a status update to a job whose stored status is
\* completed or failed.
C2_NoExecutorUpdateAfterTerminal ==
    \A j \in JobIds : lastWrite[j].by > 0 => ~lastWrite[j].overTerminal

\* C3: the registry holds an entry only for a job whose task has not ended.
C3_RegistryOnlyUnfinished ==
    \A j \in JobIds : registry[j] # 0 => tasks[registry[j]].pc \notin Ended

\* C4: per job at most one task is neither ended nor cancelled, and the
\* registry maps the job to the newest task created for it.
C4_AtMostOneLiveTask ==
    \A j \in JobIds :
        /\ Cardinality({t \in TasksOf(j) : Live(t)}) <= 1
        /\ \A t \in TasksOf(j) : Live(t) => t = Newest(j)
        /\ IF TasksOf(j) = {} THEN registry[j] = 0 ELSE registry[j] = Newest(j)

\* C4 witness: a superseded task that has been told to cancel and has not
\* ended yet, beside its live replacement.
C4_Witness ==
    \E t, u \in TaskIds :
        /\ t < u
        /\ tasks[t].job = tasks[u].job
        /\ tasks[t].kind # "none"
        /\ tasks[t].cancel
        /\ tasks[t].pc \notin Ended
        /\ Live(u)
        /\ tasks[u].pc # "created"

\* C5: two status-update writes to one job are never in progress together.
C5_NoOverlappingWrites ==
    \A j \in JobIds :
        Cardinality({t \in TasksOf(j) : tasks[t].thr = "update"}) <= 1

\* C6: every task runs the strategy the configuration selects by priority:
\* external client, then command template, then simulation; all tasks of a
\* behaviour run the same strategy.
C6_StrategyPriority ==
    /\ \A t \in TaskIds :
          tasks[t].kind # "none" =>
             /\ cfg.client => tasks[t].kind = "external"
             /\ ~cfg.client /\ cfg.template => tasks[t].kind = "pipeline"
             /\ ~cfg.client /\ ~cfg.template => tasks[t].kind = "simulate" /\ cfg.sim
    /\ \A t, u \in TaskIds :
          tasks[t].kind # "none" /\ tasks[u].kind # "none" => tasks[t].kind = tasks[u].kind

\* C6 witness: two External-Submit tasks under a configuration that also
\* sets a command template and allows the simulation.
C6_Witness ==
    /\ cfg.client /\ cfg.template /\ cfg.sim
    /\ tasks[1].kind = "external"
    /\ tasks[2].kind = "external"

\* C7: with no strategy configured a schedule call raises, creates no task,
\* leaves the registry empty and the job rows as they are; with a strategy
\* configured a schedule call raises nothing.
C7_ConfigurationError ==
    [][nSched' # nSched =>
         IF NoStrategy
         THEN /\ schedResult' = "RuntimeError"
              /\ tasks' = tasks
              /\ \A t \in TaskIds : tasks'[t] = NoTask
              /\ \A j \in JobIds : registry'[j] = 0
              /\ \A j \in JobIds : jobs[j] # NoRow => jobs'[j] = jobs[j]
              /\ \A j \in JobIds : jobs[j] = NoRow => jobs'[j] \in {NoRow, NewJob}
         ELSE schedResult' = "ok"]_vars

\* C7 witness: a schedule call has raised for a freshly created job.
C7_Witness ==
    /\ NoStrategy
    /\ schedResult = "RuntimeError"
    /\ \E j \in JobIds : jobs[j] = NewJob /\ registry[j] = 0

\* C8: a schedule call that succeeds applies no status update: each job row
\* is on return what it was at the call (a new job: queued, progress 0), and
\* the task it created has not run yet.
C8_ScheduleAppliesNoUpdate ==
    [][nSched' # nSched /\ schedResult' = "ok" =>
         /\ \A j \in JobIds : jobs[j] # NoRow => jobs'[j] = jobs[j]
         /\ \A j \in JobIds : jobs[j] = NoRow /\ jobs'[j] # NoRow =>
               /\ jobs'[j].status = "queued"
               /\ jobs'[j].progress = 0
               /\ jobs'[j].model_file_name = NULL
         /\ lastWrite' = lastWrite
         /\ \E t \in TaskIds : tasks[t].kind = "none" /\ tasks'[t].pc = "created"
                               /\ tasks'[t].thr = "none"]_vars

\* C8 witness: schedule has returned for a new job, which is still queued
\* while its task waits to run.
C8_Witness ==
    \E j \in JobIds :
        /\ schedResult = "ok"
        /\ jobs[j] = NewJob
        /\ registry[j] # 0
        /\ tasks[registry[j]].pc = "created"

\* C9: no exception other than the cancellation leaves a scheduled task.
C9_NoErrorEscapes ==
    \A t \in TaskIds : tasks[t].pc # "crashed"

\* C10: a pipeline run whose command exits 0 after leaving a file that
\* matches an artifact pattern in the working directory issues the final
\* update completed / 1.0 with the stored reference of that file.
C10_ArtifactCompletes ==
    \A t \in TaskIds :
        (/\ tasks[t].kind = "pipeline"
         /\ tasks[t].pc = "pipe_final"
         /\ tasks[t].rc = 0
         /\ locate_artifact(tasks[t].wrote) # NULL)
        => /\ tasks[t].patch.status = "completed"
           /\ tasks[t].patch.progress = 100
           /\ tasks[t].patch.model_file_name =
                 persist_model_artifact(tasks[t].job, locate_artifact(tasks[t].wrote))

\* The row of a task's job.
RowOf(t) == jobs[tasks[t].job]

\* The latest status update applied to the job of task t was applied by t,
\* and the row is still there.
LastWriter(t) ==
    /\ tasks[t].kind # "none"
    /\ RowOf(t) # NoRow
    /\ lastWrite[tasks[t].job].by = t

\* C11: a pipeline run that is not cancelled and whose command exits with a
\* code c other than 0 issues as its final update failed / 0.0 with notes
\* naming c and no model reference; the write leaves model_file_name as it
\* is, and once applied the job is failed / 0.0 with those notes.
C11_NonZeroExitFails ==
    \A t \in TaskIds :
        (/\ tasks[t].kind = "pipeline"
         /\ tasks[t].pc = "pipe_final"
         /\ tasks[t].rc # 0
         /\ ~tasks[t].cancel)
        => /\ tasks[t].patch.status = "failed"
           /\ tasks[t].patch.progress = 0
           /\ tasks[t].patch.notes = "Pipeline exited with code " \o ToString(tasks[t].rc)
           /\ tasks[t].patch.model_file_name = NULL
           /\ (tasks[t].thr = "update" /\ RowOf(t) # NoRow) =>
                 update_job(RowOf(t), tasks[t].patch).model_file_name
                    = RowOf(t).model_file_name
           /\ (tasks[t].ret = "ok" /\ LastWriter(t)) =>
                 /\ RowOf(t).status = "failed"
                 /\ RowOf(t).progress = 0
                 /\ RowOf(t).notes = "Pipeline exited with code " \o ToString(tasks[t].rc)

\* C11 witness: the command has exited with code 7 and the final update of
\* the run has been applied.
C11_Witness ==
    \E t \in TaskIds :
        /\ tasks[t].kind = "pipeline"
        /\ tasks[t].pc = "pipe_final"
        /\ tasks[t].rc = 7
        /\ ~tasks[t].cancel
        /\ tasks[t].ret = "ok"
        /\ LastWriter(t)
        /\ RowOf(t).notes = "Pipeline exited with code 7"

\* C12: a pipeline run that is not cancelled and whose command exits with
\* code 0 while no file of the working directory matches an artifact pattern
\* issues as its final update failed / 0.0 with the no-artifact note and no
\* model reference; the write leaves model_file_name as it is.
C12_NoArtifactFails ==
    \A t \in TaskIds :
        (/\ tasks[t].kind = "pipeline"
         /\ tasks[t].pc = "pipe_final"
         /\ tasks[t].rc = 0
         /\ locate_artifact(tasks[t].wrote) = NULL
         /\ ~tasks[t].cancel)
        => /\ tasks[t].patch.status = "failed"
           /\ tasks[t].patch.progress = 0
           /\ tasks[t].patch.notes = "Pipeline finished but no model artifact was found."
           /\ tasks[t].patch.model_file_name = NULL
           /\ (tasks[t].thr = "update" /\ RowOf(t) # NoRow) =>
                 update_job(RowOf(t), tasks[t].patch).model_file_name
                    = RowOf(t).model_file_name
           /\ (tasks[t].ret = "ok" /\ LastWriter(t)) =>
                 /\ RowOf(t).status = "failed"
                 /\ RowOf(t).progress = 0
                 /\ RowOf(t).notes = "Pipeline finished but no model artifact was found."

\* C12 witness: the command has exited with code 0 leaving only a log file,
\* and the final update of the run has been applied.
C12_Witness ==
    \E t \in TaskIds :
        /\ tasks[t].kind = "pipeline"
        /\ tasks[t].pc = "pipe_final"
        /\ tasks[t].rc = 0
        /\ tasks[t].wrote = {"log.txt"}
        /\ ~tasks[t].cancel
        /\ tasks[t].ret = "ok"
        /\ LastWriter(t)
        /\ RowOf(t).status = "failed"

\* The documented timeline of the simulation.
C13_Timeline ==
    <<[status |-> "processing", progress |-> 20],
      [status |-> "meshing",    progress |-> 60],
      [status |-> "texturing",  progress |-> 85],
      [status |-> "completed",  progress |-> 100]>>

\* The number of updates a simulation task has had applied, from where its
\* coroutine stands.
C13_Applied(t) ==
    CASE tasks[t].pc = "sim_sleep" -> tasks[t].step - 1
      [] tasks[t].pc = "sim_update" /\ tasks[t].thr = "update" -> tasks[t].step - 1
      [] tasks[t].pc = "sim_update" /\ tasks[t].ret = "ok" -> tasks[t].step
      [] tasks[t].pc = "done" -> 4
      [] OTHER -> 0

C14_CancelledInDelay ==
    [][\A t \in TaskIds :
          /\ (tasks[t].kind = "simulate" /\ tasks[t].cancel /\ tasks[t].pc = "sim_sleep")
             => /\ tasks[t].thr = "none"
                /\ tasks'[t].thr = "none"
                /\ tasks'[t].pc \in {"sim_sleep", "cancelled"}
          /\ (tasks[t].kind = "simulate" /\ tasks[t].pc = "cancelled"
              /\ tasks[t].thr = "none")
             => tasks'[t] = tasks[t]]_vars

\* C14 witness: a simulation task told to cancel in the delay of its third
\* step, its second update being the latest applied to the job.
C14_Witness ==
    \E t \in TaskIds :
        /\ tasks[t].kind = "simulate"
        /\ tasks[t].cancel
        /\ tasks[t].pc = "sim_sleep"
        /\ tasks[t].step = 3
        /\ LastWriter(t)
        /\ RowOf(t).status = "meshing"

\* Every patch an executor may issue.
C15_ExecutorPatches ==
    {Patch("processing", 5, "Submitting to reconstruction service", NULL),
     Patch("processing", 5, "Reconstruction started", NULL)}
    \cup {submit_error_patch(r) : r \in {x \in SubmitOutcomes : x.exc # NULL}}
    \cup {Patch(IF r.accepted THEN "processing" ELSE "failed",
                IF r.accepted THEN 10 ELSE 0,
                IF r.message # NULL THEN r.message
                ELSE IF r.accepted THEN "Job accepted by reconstruction service."
                ELSE "Reconstruction service rejected the job.",
                NULL) : r \in {x \in SubmitOutcomes : x.exc = NULL}}
    \cup {exit_patch(o.rc) : o \in ProcessOutcomes}
    \cup {pipeline_verdict(j, a) : j \in JobIds, a \in {NULL, "model.ply"}}
    \cup {Patch(sim_steps[k].status, sim_steps[k].progress, sim_steps[k].note, NULL) :
             k \in 1..3}
    \cup {Patch("completed", 100, "Reconstruction complete", save_model_placeholder(j)) :
             j \in JobIds}

\* C15: a row whose latest status update came from an executor holds every
\* field of one patch: status, progress and notes of the same patch, and its
\* model reference when it has one, whether or not the task had been told
\* to cancel while the update was written.
C15_UpdatesAreWhole ==
    \A j \in JobIds :
        (lastWrite[j].by > 0 /\ jobs[j] # NoRow)
        => \E p \in C15_ExecutorPatches :
              /\ jobs[j].status = p.status
              /\ jobs[j].progress = p.progress
              /\ jobs[j].notes = p.notes
              /\ p.model_file_name # NULL => jobs[j].model_file_name = p.model_file_name

\* C15 witness: the latest update of a job was written for a task that had
\* already been told to cancel.
C15_Witness ==
    \E j \in JobIds :
        /\ jobs[j] # NoRow
        /\ lastWrite[j].by > 0
        /\ lastWrite[j].stale
        /\ jobs[j].status # "queued"

\* C16: when submit_job raises, the External-Submit run attaches no external
\* id and issues one update, failed / 0.0 with notes carrying the error
\* text, which once applied leaves the job failed / 0.0 with those notes.
C16_SubmitErrorFails ==
    \A t \in TaskIds :
        (/\ tasks[t].kind = "external"
         /\ tasks[t].pc \notin Ended
         /\ tasks[t].result.exc # NULL)
        => /\ tasks[t].pc \in {"ext_submit", "ext_final"}
           /\ tasks[t].thr \in {"none", "update"}
           /\ tasks[t].pc = "ext_final" =>
                 /\ tasks[t].patch.status = "failed"
                 /\ tasks[t].patch.progress = 0
                 /\ tasks[t].patch.model_file_name = NULL
                 /\ tasks[t].patch.notes \in
                       {tasks[t].result.message,
                        "Unexpected error contacting reconstruction service: "
                           \o tasks[t].result.message}
           /\ (tasks[t].pc = "ext_final" /\ tasks[t].ret = "ok" /\ LastWriter(t)) =>
                 /\ RowOf(t).status = "failed"
                 /\ RowOf(t).progress = 0
                 /\ RowOf(t).notes = tasks[t].patch.notes

\* C16 witness: submit_job has raised an exception that is not the service
\* error and the failed update has been applied.
C16_Witness ==
    \E t \in TaskIds :
        /\ tasks[t].kind = "external"
        /\ tasks[t].pc = "ext_final"
        /\ tasks[t].result.exc = "other"
        /\ tasks[t].ret = "ok"
        /\ LastWriter(t)
        /\ RowOf(t).status = "failed"
        /\ RowOf(t).external_job_id = NULL

\* C17: when submit_job returns, the last update of an External-Submit run
\* that is not cancelled is failed / 0.0 with the service message or the
\* default rejection text if the result is not accepted, and processing /
\* 0.10 with the service message or the default acceptance text if it is;
\* no External-Submit task issues completed, and a task that has returned
\* has no update in progress.
C17_SubmitVerdict ==
    \A t \in TaskIds :
        tasks[t].kind = "external"
        => /\ tasks[t].patch.status # "completed"
           /\ tasks[t].pc = "done" => tasks[t].thr = "none"
           /\ (tasks[t].pc = "ext_final" /\ tasks[t].result.exc = NULL /\ ~tasks[t].cancel) =>
                 /\ tasks[t].patch =
                       IF ~tasks[t].result.accepted
                       THEN Patch("failed", 0,
                                  IF tasks[t].result.message # NULL
                                  THEN tasks[t].result.message
                                  ELSE "Reconstruction service rejected the job.", NULL)
                       ELSE Patch("processing", 10,
                                  IF tasks[t].result.message # NULL
                                  THEN tasks[t].result.message
                                  ELSE "Job accepted by reconstruction service.", NULL)
                 /\ (tasks[t].ret = "ok" /\ LastWriter(t)) =>
                       /\ RowOf(t).status = tasks[t].patch.status
                       /\ RowOf(t).progress = tasks[t].patch.progress
                       /\ RowOf(t).notes = tasks[t].patch.notes

\* C17 witness: the service has accepted the job without a message and the
\* acceptance update has been applied.
C17_Witness ==
    \E t \in TaskIds :
        /\ tasks[t].kind = "external"
        /\ tasks[t].pc = "ext_final"
        /\ tasks[t].result.exc = NULL
        /\ tasks[t].result.accepted
        /\ ~tasks[t].cancel
        /\ tasks[t].ret = "ok"
        /\ LastWriter(t)
        /\ RowOf(t).status = "processing"
        /\ RowOf(t).progress = 10

\* C18: once the attach of an External-Submit run has returned, the row
\* carries the external id of the result, accepted or not, and still has
\* the status, progress and notes of the update applied before it; attaching
\* an id to any row changes external_job_id alone.
C18_AttachChangesOnlyExternalId ==
    /\ \A t \in TaskIds :
          (/\ tasks[t].kind = "external"
           /\ tasks[t].pc \in {"ext_attach", "ext_final"}
           /\ tasks[t].pc = "ext_attach" => tasks[t].ret = "ok"
           /\ tasks[t].result.exc = NULL
           /\ tasks[t].result.external_job_id # NULL
           /\ RowOf(t) # NoRow)
          => /\ RowOf(t).external_job_id = tasks[t].result.external_job_id
             /\ (tasks[t].pc = "ext_attach" /\ LastWriter(t)) =>
                   /\ RowOf(t).status = "processing"
                   /\ RowOf(t).progress = 5
                   /\ RowOf(t).notes = "Submitting to reconstruction service"
    /\ \A j \in JobIds :
          jobs[j] # NoRow =>
             LET after == attach_external_job_id(jobs[j], "ext-2")
             IN  /\ after.external_job_id = "ext-2"
                 /\ after.status = jobs[j].status
                 /\ after.progress = jobs[j].progress
                 /\ after.notes = jobs[j].notes
                 /\ after.model_file_name = jobs[j].model_file_name

\* C18 witness: the service has rejected the job and returned an id; the id
\* is on the row while the status is still that of the first update.
C18_Witness ==
    \E t \in TaskIds :
        /\ tasks[t].kind = "external"
        /\ tasks[t].pc = "ext_attach"
        /\ tasks[t].ret = "ok"
        /\ ~tasks[t].result.accepted
        /\ tasks[t].result.external_job_id = "ext-1"
        /\ LastWriter(t)
        /\ RowOf(t).external_job_id = "ext-1"
        /\ RowOf(t).status = "processing"

\* C19: a status callback received while no job row exists is answered 404
\* and changes nothing: no row, no file of a working directory, no ingestion
\* started.
C19_UnknownJobNoWrite ==
    [][(/\ nRequests' # nRequests
        /\ \A j \in JobIds : jobs[j] = NoRow)
       => /\ cbResponse'.code = 404
          /\ jobs' = jobs
          /\ lastWrite' = lastWrite
          /\ workFiles' = workFiles
          /\ cb' = NoCb]_vars

\* C19 witness: a callback carrying an artifact URI has been answered 404
\* for a job that does not exist.
C19_Witness ==
    /\ cbResponse.code = 404
    /\ cbResponse.payload.model_uri # NULL
    /\ cbResponse.job \in JobIds
    /\ jobs[cbResponse.job] = NoRow
    /\ cb = NoCb

\* The text of the exception the ingestion of a URI that cannot be ingested
\* raises.
C20_IngestionError(uri) ==
    CASE uri = "http://down.example/model.glb" ->
            "<urlopen error [Errno 111] Connection refused>"
      [] uri = "file:///srv/out/missing.glb" ->
            "Artifact not found at /srv/out/missing.glb"
      [] uri = "ftp://recon.example/model.glb" ->
            "Unsupported artifact URI scheme: ftp"
      [] OTHER -> NULL

\* C20: when the ingestion of a callback's artifact URI has failed and the
\* callback's update is the latest applied to the job, the job is failed /
\* 0.0 whatever the callback reported, and its notes are the caller's
\* message (or the default text) followed by the error text.
C20_IngestionFailureFails ==
    \A j \in JobIds :
        (/\ cbResponse.job = j
         /\ cbResponse.code = 204
         /\ cbResponse.artifact_error # NULL
         /\ lastWrite[j].by = -1
         /\ jobs[j] # NoRow)
        => /\ jobs[j].status = "failed"
           /\ jobs[j].progress = 0
           /\ cbResponse.artifact_error = C20_IngestionError(cbResponse.payload.model_uri)
           /\ jobs[j].notes =
                 (IF cbResponse.payload.message # NULL THEN cbResponse.payload.message
                  ELSE "Artifact retrieval failed")
                 \o " - " \o cbResponse.artifact_error

\* C20 witness: a callback that reported texturing / 0.85 with a file:// URI
\* that does not exist has been reconciled.
C20_Witness ==
    \E j \in JobIds :
        /\ cbResponse.job = j
        /\ cbResponse.code = 204
        /\ cbResponse.payload.status = "texturing"
        /\ cbResponse.artifact_error # NULL
        /\ lastWrite[j].by = -1
        /\ jobs[j] # NoRow
        /\ jobs[j].status = "failed"

\* The latest status update applied to job j is that of the callback the
\* latest response answers.
ReconciledLast(j) ==
    /\ cbResponse.job = j
    /\ cbResponse.code = 204
    /\ lastWrite[j].by = -1
    /\ jobs[j] # NoRow

\* C21: after a callback whose ingestion has failed is reconciled, the job
\* has no model reference, whatever it held before.
C21_FailedIngestionClearsModel ==
    \A j \in JobIds :
        (ReconciledLast(j) /\ cbResponse.artifact_error # NULL)
        => jobs[j].model_file_name = NULL

\* The whole of reconstruction_status_callback for an existing row: the row
\* and the working directory it leaves.
C22_Reconcile(row, j, payload, files) ==
    LET r == IF payload.model_uri = NULL
             THEN [ok |-> TRUE, value |-> NULL, files |-> files]
             ELSE ingest_artifact_from_uri(j, payload.model_uri, files)
        patch == callback_patch(payload,
                                IF r.ok THEN r.value ELSE NULL,
                                IF r.ok THEN NULL ELSE r.value)
    IN  [row |-> IF validate(patch) THEN update_job(row, patch) ELSE row,
         files |-> r.files]

\* C22: for every reachable row and every callback payload, reconciling the
\* payload a second time leaves status, progress, notes, model reference
\* and external id as the first reconciliation left them.
C22_ReconcileIdempotent ==
    \A j \in JobIds :
        jobs[j] # NoRow =>
           \A p \in CallbackPayloads :
              LET once  == C22_Reconcile(jobs[j], j, p, workFiles[j])
                  twice == C22_Reconcile(once.row, j, p, once.files)
              IN  twice.row = once.row

\* C22 witness: a callback with an artifact URI has been reconciled, and
\* reconciling it again would leave the row as it is.
C22_Witness ==
    \E j \in JobIds :
        /\ ReconciledLast(j)
        /\ cbResponse.payload.model_uri # NULL
        /\ jobs[j].notes # NULL
        /\ C22_Reconcile(jobs[j], j, cbResponse.payload, workFiles[j]).row = jobs[j]

\* Where the artifact of a URI that can be ingested is stored.
C23_StoredReference(j, uri) ==
    CASE uri = "http://recon.example/out/scene.glb" -> "data/models/" \o j \o "/scene.glb"
      [] uri = "/srv/out/model.glb" -> "data/models/" \o j \o "/model.glb"
      [] OTHER -> NULL

\* C23: after a callback with no artifact URI, or with one that was
\* ingested, is reconciled, the job has the status and progress of the
\* callback, its message as notes when it has one, and the reference of the
\* ingested artifact when there is one.
C23_CallbackVerbatim ==
    \A j \in JobIds :
        (ReconciledLast(j) /\ cbResponse.artifact_error = NULL)
        => /\ jobs[j].status = cbResponse.payload.status
           /\ jobs[j].progress = cbResponse.payload.progress
           /\ cbResponse.payload.message # NULL =>
                 jobs[j].notes = cbResponse.payload.message
           /\ cbResponse.payload.model_uri # NULL =>
                 jobs[j].model_file_name =
                    C23_StoredReference(j, cbResponse.payload.model_uri)

\* C23 witness: a callback whose artifact was downloaded has been
\* reconciled.
C23_Witness ==
    \E j \in JobIds :
        /\ ReconciledLast(j)
        /\ cbResponse.artifact_error = NULL
        /\ cbResponse.payload.model_uri = "http://recon.example/out/scene.glb"
        /\ jobs[j].model_file_name = "data/models/j1/scene.glb"
        /\ jobs[j].notes = "Reconstruction finished"

\* C24: a step of the callback handler changes no task and no registry
\* entry and schedules nothing, and the row it leaves is the row it found
\* updated with the patch computed from the payload and the ingestion alone.
C24_CallbackLeavesRegistry ==
    [][(cbResponse' # cbResponse \/ cb' # cb)
       => /\ tasks' = tasks
          /\ registry' = registry
          /\ nSched' = nSched
          /\ (cb # NoCb /\ jobs[cb.job] # NoRow) =>
                jobs'[cb.job] =
                   C22_Reconcile(jobs[cb.job], cb.job, cb.payload, workFiles[cb.job]).row]_vars

\* C24 witness: a callback has been reconciled for a job whose task has
\* neither ended nor been told to cancel.
C24_Witness ==
    \E j \in JobIds :
        /\ ReconciledLast(j)
        /\ registry[j] # 0
        /\ Live(registry[j])
        /\ tasks[registry[j]].pc # "created"

\* C25: the progress of every job is within [0.0, 1.0].
C25_ProgressInRange ==
    \A j \in JobIds : 0 <= jobs[j].progress /\ jobs[j].progress <= 100

\* C25 witness: a callback reporting progress 1.5 has been turned down and
\* the job is there with a progress the executor set.
C25_Witness ==
    \E j \in JobIds :
        /\ cbResponse.job = j
        /\ cbResponse.code = 500
        /\ cbResponse.payload.progress = 150
        /\ jobs[j] # NoRow
        /\ jobs[j].progress > 0

\* Patches with and without status and progress.
C26_Patches ==
    {Patch(NULL, 100, NULL, NULL),
     Patch("processing", 100, NULL, NULL),
     Patch("failed", 100, "gave up", NULL),
     Patch(NULL, 50, NULL, NULL),
     Patch(NULL, 0, "restarted", NULL),
     Patch("meshing", NoProgress, NULL, NULL),
     Patch(NULL, NoProgress, "note", "data/models/x.glb")}

\* C26: for every reachable row and every patch, the status after the update
\* is the patch's status when it has one, else completed when the patch has
\* progress 1.0 or more, else the status of the row.
C26_StatusAfterUpdate ==
    \A j \in JobIds :
        jobs[j] # NoRow =>
           \A p \in C26_Patches \cup ManualPatches :
              validate(p) =>
                 update_job(jobs[j], p).status =
                    IF p.status # NULL THEN p.status
                    ELSE IF p.progress # NoProgress /\ p.progress >= 100 THEN "completed"
                    ELSE jobs[j].status

\* C26 witness: a manual update carrying progress 1.0 and no status has
\* completed a job the simulation had moved to its first step.
C26_Witness ==
    \E j \in JobIds :
        /\ jobs[j] # NoRow
        /\ lastWrite[j].by = -2
        /\ jobs[j].status = "completed"
        /\ jobs[j].progress = 100
        /\ jobs[j].notes = "Running structure-from-motion"

\* C27: for every reachable row and every patch, each of status (promotion
\* apart), progress, notes and model_file_name the patch does not provide
\* keeps its value, and the external id is never changed; an update for a
\* job that does not exist raises and leaves the job absent.
C27_UpdateFrame ==
    /\ \A j \in JobIds :
          jobs[j] # NoRow =>
             \A p \in C26_Patches \cup ManualPatches :
                LET after == update_job(jobs[j], p)
                IN  /\ (p.status = NULL /\ (p.progress = NoProgress \/ p.progress < 100)) =>
                          after.status = jobs[j].status
                    /\ p.progress = NoProgress => after.progress = jobs[j].progress
                    /\ p.notes = NULL => after.notes = jobs[j].notes
                    /\ p.model_file_name = NULL =>
                          after.model_file_name = jobs[j].model_file_name
                    /\ after.external_job_id = jobs[j].external_job_id
    /\ \A t \in TaskIds :
          (/\ tasks[t].pc \in {"ext_submitting", "ext_final", "pipe_started", "pipe_final",
                               "sim_update"}
           /\ tasks[t].ret = "err")
          => RowOf(t) = NoRow

\* C27 witness: a manual update with status and notes only has left the
\* progress and the external id an External-Submit run had set.
C27_Witness ==
    \E j \in JobIds :
        /\ jobs[j] # NoRow
        /\ lastWrite[j].by = -2
        /\ jobs[j].status = "failed"
        /\ jobs[j].notes = "Cancelled by user"
        /\ jobs[j].progress = 5
        /\ jobs[j].external_job_id = "ext-1"

\* C28: whenever a job has had a task superseded, the registry entry of the
\* job is the newest task, whether the superseded task is still ending or
\* has ended.
C28_HandleStaysWithNewTask ==
    \A t, u \in TaskIds :
        (/\ t < u
         /\ tasks[t].kind # "none"
         /\ tasks[u].kind # "none"
         /\ tasks[t].job = tasks[u].job)
        => /\ registry[tasks[t].job] # t
           /\ registry[tasks[t].job] # 0
           /\ (\A v \in TaskIds : v > u => tasks[v].kind = "none") =>
                 registry[tasks[t].job] = u

\* C28 witness: the superseded task has ended as cancelled while the new
\* task runs, and the registry holds the new task.
C28_Witness ==
    \E t, u \in TaskIds :
        /\ t < u
        /\ tasks[t].job = tasks[u].job
        /\ tasks[t].pc = "cancelled"
        /\ Live(u)
        /\ tasks[u].pc # "created"
        /\ registry[tasks[u].job] = u

\* C29: a pipeline or simulation run that was not cancelled and has ended
\* has left its job completed or failed (no one else having updated the job
\* since).
C29_RunEndsTerminal ==
    \A t \in TaskIds :
        (/\ tasks[t].kind \in {"pipeline", "simulate"}
         /\ tasks[t].pc \in {"done", "crashed"}
         /\ ~tasks[t].cancel
         /\ RowOf(t) # NoRow
         /\ lastWrite[tasks[t].job].by \in {0, t})
        => RowOf(t).status \in Terminal

\* The regular files of a directory that match the i-th pattern.
C30_Regular(files, i) ==
    {f \in files : Matches(artifact_patterns[i], f) /\ is_file(f)}

\* What C30 asks of the locator for one directory.
C30_Located(files) ==
    LET a == locate_artifact(files) IN
    /\ a = NULL <=> \A i \in 1..Len(artifact_patterns) : C30_Regular(files, i) = {}
    /\ a # NULL =>
          /\ a \in files
          /\ is_file(a)
          /\ \E i \in 1..Len(artifact_patterns) :
                /\ a \in C30_Regular(files, i)
                /\ \A k \in 1..(i - 1) : C30_Regular(files, k) = {}

\* C30: for every working directory and every directory a child has left,
\* the locator returns a regular file matching the earliest pattern that a
\* regular file matches, at any depth, and nothing exactly when no regular
\* file matches a pattern.
C30_LocatorPrefersEarlierPattern ==
    /\ \A j \in JobIds : C30_Located(workFiles[j])
    /\ \A t \in TaskIds : C30_Located(tasks[t].wrote)

\* C30 witness: a directory holding model.ply at the top and scene.obj in a
\* subdirectory, where the locator returns the latter.
C30_Witness ==
    \E j \in JobIds :
        /\ {"model.ply", "sub/scene.obj"} \subseteq workFiles[j]
        /\ locate_artifact(workFiles[j]) = "sub/scene.obj"

\* C31: a job no status update has been applied to is queued at progress
\* 0.0 with no model reference and no external id; no executor issues a
\* patch with status queued, and a job whose latest update came from an
\* executor is not queued.
C31_QueuedOnlyAtCreation ==
    /\ \A j \in JobIds :
          (jobs[j] # NoRow /\ lastWrite[j].by = 0)
          => /\ jobs[j].status = "queued"
             /\ jobs[j].progress = 0
             /\ jobs[j].model_file_name = NULL
             /\ jobs[j].external_job_id = NULL
    /\ \A t \in TaskIds : tasks[t].patch.status # "queued"
    /\ \A j \in JobIds :
          (jobs[j] # NoRow /\ lastWrite[j].by > 0) => jobs[j].status # "queued"

\* C31 witness: a job just created, with the first update of its executor
\* handed to a worker and not yet applied.
C31_Witness ==
    \E t \in TaskIds :
        /\ tasks[t].thr = "update"
        /\ tasks[t].patch.status = "processing"
        /\ lastWrite[tasks[t].job].by = 0
        /\ RowOf(t) # NoRow
        /\ RowOf(t).status = "queued"

\* C32: a callback reconciled for a job that was completed or failed leaves
\* the status it reported (failed when the ingestion failed); on every
\* completed or failed row, a callback or a manual update sets the status
\* its patch carries, with no transition check.
C32_NoTransitionCheck ==
    /\ \A j \in JobIds :
          (ReconciledLast(j) /\ lastWrite[j].overTerminal)
          => jobs[j].status = IF cbResponse.artifact_error # NULL THEN "failed"
                              ELSE cbResponse.payload.status
    /\ \A j \in JobIds :
          (jobs[j] # NoRow /\ jobs[j].status \in Terminal)
          => /\ \A p \in {q \in CallbackPayloads : q.progress <= 100} :
                   C22_Reconcile(jobs[j], j, p, workFiles[j]).row.status
                      = IF p.model_uri # NULL
                           /\ ~ingest_artifact_from_uri(j, p.model_uri, workFiles[j]).ok
                        THEN "failed" ELSE p.status
             /\ \A p \in {q \in ManualPatches : q.progress <= 100} :
                   update_job(jobs[j], p).status
                      = IF p.status # NULL THEN p.status ELSE "completed"

\* C32 witness: a callback reporting processing has been reconciled for a
\* job that was completed or failed, and the job is processing again.
C32_Witness ==
    \E j \in JobIds :
        /\ ReconciledLast(j)
        /\ lastWrite[j].overTerminal
        /\ cbResponse.payload.status = "processing"
        /\ jobs[j].status = "processing"
        /\ jobs[j].progress = 50

\* C33: an External-Submit task has had an update applied before its submit
\* call starts, a pipeline task after its working directory is prepared and
\* before its child is spawned; while that update is pending the task has
\* applied none, and when it is the latest update of the job the row is
\* processing / 0.05 with the submitting (started) note.
C33_FirstUpdateBeforeWork ==
    \A t \in TaskIds :
        /\ (tasks[t].kind = "external" /\ ~tasks[t].cancel) =>
              /\ (tasks[t].pc = "ext_submitting" /\ tasks[t].thr = "update") =>
                    lastWrite[tasks[t].job].by # t
              /\ tasks[t].pc = "ext_submitting" => tasks[t].thr # "submit"
              /\ tasks[t].pc \in {"ext_submit", "ext_attach", "ext_final"} =>
                    lastWrite[tasks[t].job].by # 0
              /\ (tasks[t].pc = "ext_submit" /\ tasks[t].thr = "submit" /\ LastWriter(t)) =>
                    /\ RowOf(t).status = "processing"
                    /\ RowOf(t).progress = 5
                    /\ RowOf(t).notes = "Submitting to reconstruction service"
        /\ (tasks[t].kind = "pipeline" /\ ~tasks[t].cancel) =>
              /\ tasks[t].pc \in {"created", "pipe_started"} => tasks[t].proc = "none"
              /\ (tasks[t].pc = "pipe_started" /\ tasks[t].thr = "update") =>
                    /\ lastWrite[tasks[t].job].by # t
                    /\ (t = 1 /\ nRequests = 0) => workFiles[tasks[t].job] = {}
              /\ tasks[t].pc \in {"pipe_wait", "pipe_final"} =>
                    lastWrite[tasks[t].job].by # 0
              /\ (tasks[t].pc = "pipe_wait" /\ tasks[t].proc = "running" /\ LastWriter(t)) =>
                    /\ RowOf(t).status = "processing"
                    /\ RowOf(t).progress = 5
                    /\ RowOf(t).notes = "Reconstruction started"

\* C33 witness: the submit call of an External-Submit task is under way and
\* the submitting update is the latest applied to the job.
C33_Witness ==
    \E t \in TaskIds :
        /\ tasks[t].kind = "external"
        /\ ~tasks[t].cancel
        /\ tasks[t].pc = "ext_submit"
        /\ tasks[t].thr = "submit"
        /\ LastWriter(t)
        /\ RowOf(t).notes = "Submitting to reconstruction service"

\* C34: once a callback has been applied to a job, no update of an
\* External-Submit task is applied on top of it.
C34_CallbackNotOverwritten ==
    \A t \in TaskIds :
        (/\ tasks[t].kind = "external"
         /\ RowOf(t) # NoRow
         /\ cbResponse.job = tasks[t].job
         /\ cbResponse.code = 204)
        => lastWrite[tasks[t].job].by # t

\* C35: as long as no callback, manual update or reset has been received, a
\* failed job has progress 0.0, a completed job has progress 1.0 and a model
\* reference, and a job that is not completed has no model reference.
C35_ExecutorOnlyConsistency ==
    nRequests = 0 =>
       \A j \in JobIds :
          jobs[j] # NoRow =>
             /\ jobs[j].status = "failed" => jobs[j].progress = 0
             /\ jobs[j].status = "completed" =>
                   jobs[j].progress = 100 /\ jobs[j].model_file_name # NULL
             /\ jobs[j].status # "completed" => jobs[j].model_file_name = NULL

\* C36: a pipeline run whose command was run_colmap.py falling back to the
\* placeholder model after a failed COLMAP step issues a final update that
\* completes the job with a model reference.
C36_FallbackKeepsModel ==
    \A t \in TaskIds :
        (/\ tasks[t].kind = "pipeline"
         /\ tasks[t].pc = "pipe_final"
         /\ ~tasks[t].cancel
         /\ tasks[t].rc = run_colmap_main([input |-> TRUE, colmap |-> TRUE,
                                            steps_ok |-> FALSE]).rc
         /\ run_colmap_main([input |-> TRUE, colmap |-> TRUE, steps_ok |-> FALSE]).out
               \subseteq tasks[t].wrote)
        => /\ tasks[t].patch.status = "completed"
           /\ tasks[t].patch.model_file_name # NULL

====
